---- MODULE Spec2Model ----
(***************************************************************************)
(* The data gateway of src/src/state/api.ts (five RTK Query endpoints over *)
(* a Supabase/PostgREST backend) together with the products schema of the  *)
(* migration src/supabase/migrations/2025..._schema.sql.                   *)
(*                                                                         *)
(* Text is a sequence of one-character strings.  Values that cross the     *)
(* wire are JavaScript values: a record with the JS type and the value.    *)
(* Numeric columns are kept as integers: prices in cents, ratings in       *)
(* tenths, percentages in hundredths.  The seed dates CURRENT_DATE - 6 days *)
(* to CURRENT_DATE are the days 22 to 28 of one month.                     *)
(***************************************************************************)
EXTENDS Integers, Sequences, FiniteSets, TLC

VARIABLES db, fault, nextId, calls, pending, subs, last, cache, created

vars == <<db, fault, nextId, calls, pending, subs, last, cache, created>>

----------------------------------------------------------------------------
(* Bounds of the model *)

\* total number of handler invocations in one behaviour
MaxCalls == 2
\* handler invocations that may be awaiting the backend at the same time
MaxPending == 2
\* longest search text handed to getProducts
MaxSearchLen == 1

----------------------------------------------------------------------------
(* JavaScript values *)

Num(n) == [type |-> "number", val |-> n]
Str(s) == [type |-> "string", val |-> s]
Null == [type |-> "null", val |-> 0]
Undefined == [type |-> "undefined", val |-> 0]

\* a nullable SQL column holds <<>> (NULL) or <<v>>
JsonNullable(c) == IF c = <<>> THEN Null ELSE Num(c[1])

Digit(d) == <<"0", "1", "2", "3", "4", "5", "6", "7", "8", "9">>[d + 1]

RECURSIVE NumberToString(_)
\* Number.prototype.toString of an integral number
NumberToString(n) ==
  IF n < 0 THEN <<"-">> \o NumberToString(0 - n)
  ELSE IF n < 10 THEN <<Digit(n)>>
  ELSE NumberToString(n \div 10) \o <<Digit(n % 10)>>

\* PostgREST renders a date column as ISO text; the seed dates are the
\* days d of one month
DateText(d) == <<"2", "0", "2", "5", "-", "1", "0", "-">>
                 \o (IF d < 10 THEN <<"0">> ELSE <<>>) \o NumberToString(d)

\* gen_random_uuid(): a value no other row of the table carries
GenUuid(prefix, n) == <<prefix>> \o NumberToString(n)

----------------------------------------------------------------------------
(* The schema and the seed rows of the migration *)

\* CHECK (price >= 0)
PriceMin == 0
\* CHECK (rating >= 0 AND rating <= 5), in tenths
RatingMin == 0
RatingMax == 50
\* CHECK (stock_quantity >= 0)
StockMin == 0
\* .limit(5) of the popular-products query
PopularLimit == 5

ProductRow(id, name, price, rating, stock) ==
  [product_id |-> id, name |-> name, price |-> price, rating |-> rating,
   stock_quantity |-> stock]

SeedProducts ==
  << ProductRow(<<"s", "1">>, <<"L", "a", "p", "t", "o", "p">>, 99999, <<45>>, 50),
     ProductRow(<<"s", "2">>, <<"W", "i", "r", "e", "l", "e", "s", "s", " ", "M", "o", "u", "s", "e">>, 2999, <<42>>, 200),
     ProductRow(<<"s", "3">>, <<"K", "e", "y", "b", "o", "a", "r", "d">>, 7999, <<47>>, 150),
     ProductRow(<<"s", "4">>, <<"M", "o", "n", "i", "t", "o", "r">>, 29999, <<46>>, 75),
     ProductRow(<<"s", "5">>, <<"U", "S", "B", " ", "C", "a", "b", "l", "e">>, 999, <<40>>, 500),
     ProductRow(<<"s", "6">>, <<"H", "e", "a", "d", "p", "h", "o", "n", "e", "s">>, 14999, <<48>>, 100),
     ProductRow(<<"s", "7">>, <<"W", "e", "b", "c", "a", "m">>, 8999, <<43>>, 80),
     ProductRow(<<"s", "8">>, <<"D", "e", "s", "k", " ", "L", "a", "m", "p">>, 3999, <<41>>, 120) >>

UserRow(id, name, email) == [user_id |-> id, name |-> name, email |-> email]

SeedUsers ==
  << UserRow(<<"u", "1">>,
             <<"J", "o", "h", "n", " ", "D", "o", "e">>,
             <<"j", "o", "h", "n", ".", "d", "o", "e", "@", "e", "x", "a", "m", "p", "l", "e", ".", "c", "o", "m">>),
     UserRow(<<"u", "2">>,
             <<"J", "a", "n", "e", " ", "S", "m", "i", "t", "h">>,
             <<"j", "a", "n", "e", ".", "s", "m", "i", "t", "h", "@", "e", "x", "a", "m", "p", "l", "e", ".", "c", "o", "m">>),
     UserRow(<<"u", "3">>,
             <<"B", "o", "b", " ", "J", "o", "h", "n", "s", "o", "n">>,
             <<"b", "o", "b", ".", "j", "o", "h", "n", "s", "o", "n", "@", "e", "x", "a", "m", "p", "l", "e", ".", "c", "o", "m">>),
     UserRow(<<"u", "4">>,
             <<"A", "l", "i", "c", "e", " ", "W", "i", "l", "l", "i", "a", "m", "s">>,
             <<"a", "l", "i", "c", "e", ".", "w", "i", "l", "l", "i", "a", "m", "s", "@", "e", "x", "a", "m", "p", "l", "e", ".", "c", "o", "m">>),
     UserRow(<<"u", "5">>,
             <<"C", "h", "a", "r", "l", "i", "e", " ", "B", "r", "o", "w", "n">>,
             <<"c", "h", "a", "r", "l", "i", "e", ".", "b", "r", "o", "w", "n", "@", "e", "x", "a", "m", "p", "l", "e", ".", "c", "o", "m">>) >>

SalesRow(id, total, change, date) ==
  [sales_summary_id |-> id, total_value |-> total, change_percentage |-> change,
   date |-> date]

SeedSales ==
  << SalesRow(<<"a", "1">>, 15000, <<1250>>, 22),
     SalesRow(<<"a", "2">>, 16200, <<800>>, 23),
     SalesRow(<<"a", "3">>, 14800, <<-860>>, 24),
     SalesRow(<<"a", "4">>, 17500, <<1820>>, 25),
     SalesRow(<<"a", "5">>, 16900, <<-340>>, 26),
     SalesRow(<<"a", "6">>, 18200, <<770>>, 27),
     SalesRow(<<"a", "7">>, 19000, <<440>>, 28) >>

PurchaseRow(id, total, change, date) ==
  [purchase_summary_id |-> id, total_purchased |-> total,
   change_percentage |-> change, date |-> date]

SeedPurchases ==
  << PurchaseRow(<<"b", "1">>, 8000, <<1500>>, 22),
     PurchaseRow(<<"b", "2">>, 8500, <<625>>, 23),
     PurchaseRow(<<"b", "3">>, 7800, <<-820>>, 24),
     PurchaseRow(<<"b", "4">>, 9200, <<1790>>, 25),
     PurchaseRow(<<"b", "5">>, 8900, <<-330>>, 26),
     PurchaseRow(<<"b", "6">>, 9500, <<670>>, 27),
     PurchaseRow(<<"b", "7">>, 10000, <<530>>, 28) >>

ExpenseRow(id, total, date) ==
  [expense_summary_id |-> id, total_expenses |-> total, date |-> date]

SeedExpenses ==
  << ExpenseRow(<<"c", "1">>, 3500, 22),
     ExpenseRow(<<"c", "2">>, 3800, 23),
     ExpenseRow(<<"c", "3">>, 3200, 24),
     ExpenseRow(<<"c", "4">>, 4100, 25),
     ExpenseRow(<<"c", "5">>, 3900, 26),
     ExpenseRow(<<"c", "6">>, 4200, 27),
     ExpenseRow(<<"c", "7">>, 4500, 28) >>

CategoryRow(id, category, amount, date) ==
  [expense_by_category_id |-> id, category |-> category, amount |-> amount,
   date |-> date]

SeedCategories ==
  << CategoryRow(<<"d", "1">>, <<"O", "f", "f", "i", "c", "e", " ", "S", "u", "p", "p", "l", "i", "e", "s">>, 500, 28),
     CategoryRow(<<"d", "2">>, <<"S", "a", "l", "a", "r", "i", "e", "s">>, 2500, 28),
     CategoryRow(<<"d", "3">>, <<"U", "t", "i", "l", "i", "t", "i", "e", "s">>, 300, 28),
     CategoryRow(<<"d", "4">>, <<"M", "a", "r", "k", "e", "t", "i", "n", "g">>, 800, 28),
     CategoryRow(<<"d", "5">>, <<"E", "q", "u", "i", "p", "m", "e", "n", "t">>, 400, 28) >>

\* the database right after the migration
SeedDb ==
  [products |-> SeedProducts, users |-> SeedUsers, sales_summary |-> SeedSales,
   purchase_summary |-> SeedPurchases, expense_summary |-> SeedExpenses,
   expense_by_category |-> SeedCategories]

\* a database edited out of band: few rows, equal sort keys, NULLs in the
\* optional columns, names that differ only in case or hold LIKE wildcards
EditedDb ==
  [products |->
     << ProductRow(<<"e", "1">>, <<"a">>, 150, <<>>, 7),
        ProductRow(<<"e", "2">>, <<"A", "b">>, 0, <<50>>, 7),
        ProductRow(<<"e", "3">>, <<"b", "_">>, 20, <<0>>, 0),
        ProductRow(<<"e", "4">>, <<"%">>, 5, <<>>, 3) >>,
   users |-> << UserRow(<<"u", "9">>, <<"x">>, <<"y">>) >>,
   sales_summary |->
     << SalesRow(<<"a", "8">>, 10, <<>>, 5), SalesRow(<<"a", "9">>, 20, <<3>>, 5) >>,
   purchase_summary |-> << PurchaseRow(<<"b", "9">>, 0, <<>>, 9) >>,
   expense_summary |-> << >>,
   expense_by_category |->
     << CategoryRow(<<"d", "8">>, <<"x">>, 40, 1),
        CategoryRow(<<"d", "9">>, <<"y">>, 40, 2) >>]

InitialDatabases == {SeedDb, EditedDb}

----------------------------------------------------------------------------
(* The backend: PostgREST over the tables, as the supabase client sees it *)

\* a row as the JSON object select("*") delivers (the audit timestamps,
\* which no handler reads, are left out)
JsonProduct(r) ==
  [product_id |-> Str(r.product_id), name |-> Str(r.name), price |-> Num(r.price),
   rating |-> JsonNullable(r.rating), stock_quantity |-> Num(r.stock_quantity)]

JsonUser(r) ==
  [user_id |-> Str(r.user_id), name |-> Str(r.name), email |-> Str(r.email)]

JsonSales(r) ==
  [sales_summary_id |-> Str(r.sales_summary_id), total_value |-> Num(r.total_value),
   change_percentage |-> JsonNullable(r.change_percentage),
   date |-> Str(DateText(r.date))]

JsonPurchase(r) ==
  [purchase_summary_id |-> Str(r.purchase_summary_id),
   total_purchased |-> Num(r.total_purchased),
   change_percentage |-> JsonNullable(r.change_percentage),
   date |-> Str(DateText(r.date))]

JsonExpense(r) ==
  [expense_summary_id |-> Str(r.expense_summary_id),
   total_expenses |-> Num(r.total_expenses), date |-> Str(DateText(r.date))]

JsonCategory(r) ==
  [expense_by_category_id |-> Str(r.expense_by_category_id),
   category |-> Str(r.category), amount |-> Num(r.amount),
   date |-> Str(DateText(r.date))]

\* the supabase client resolves every query to {data, error}: error is null
\* on success, data is null on failure
NoErr == [code |-> "", message |-> <<>>]
Ok(data) == [data |-> data, error |-> NoErr]
Fail(err) == [data |-> <<>>, error |-> err]

\* what can go wrong with a read: the network is down, or the table is gone
ReadFailures == {"connectivity", "notfound"}
BackendError(kind, table) == [code |-> kind, message |-> <<kind, ":", table>>]

RECURSIVE OrderBy(_, _, _, _)
\* ORDER BY key ascending LIMIT n over the rows with index in S: every
\* sequence the database may deliver (rows with equal keys come in any order)
OrderBy(rows, keys, S, n) ==
  IF S = {} \/ n = 0 THEN {<<>>}
  ELSE LET first == {i \in S : \A j \in S : keys[i] <= keys[j]}
       IN  UNION {{<<rows[i]>> \o rest : rest \in OrderBy(rows, keys, S \ {i}, n - 1)}
                  : i \in first}

Ascending(rows, Key(_)) == [i \in 1..Len(rows) |-> Key(rows[i])]
Descending(rows, Key(_)) == [i \in 1..Len(rows) |-> 0 - Key(rows[i])]
MapSeq(rows, F(_)) == [i \in 1..Len(rows) |-> F(rows[i])]
JsonRows(rowSeqs, F(_)) == {MapSeq(rs, F) : rs \in rowSeqs}

StockKey(r) == r.stock_quantity
DateKey(r) == r.date
AmountKey(r) == r.amount

\* the same query with the order turned round
PopularProductsAscending(d) ==
  JsonRows(OrderBy(d.products, Ascending(d.products, StockKey),
                   DOMAIN d.products, PopularLimit), JsonProduct)

\* from("products").select("*").order("stock_quantity", desc).limit(5)
PopularProductsQuery(d) ==
  JsonRows(OrderBy(d.products, Descending(d.products, StockKey),
                   DOMAIN d.products, PopularLimit), JsonProduct)

\* from("sales_summary").select("*").order("date", asc)
SalesSummaryQuery(d) ==
  JsonRows(OrderBy(d.sales_summary, Ascending(d.sales_summary, DateKey),
                   DOMAIN d.sales_summary, Len(d.sales_summary)), JsonSales)

PurchaseSummaryQuery(d) ==
  JsonRows(OrderBy(d.purchase_summary, Ascending(d.purchase_summary, DateKey),
                   DOMAIN d.purchase_summary, Len(d.purchase_summary)), JsonPurchase)

ExpenseSummaryQuery(d) ==
  JsonRows(OrderBy(d.expense_summary, Ascending(d.expense_summary, DateKey),
                   DOMAIN d.expense_summary, Len(d.expense_summary)), JsonExpense)

\* from("expense_by_category").select("*").order("amount", desc)
ExpenseByCategoryQuery(d) ==
  JsonRows(OrderBy(d.expense_by_category, Descending(d.expense_by_category, AmountKey),
                   DOMAIN d.expense_by_category, Len(d.expense_by_category)),
           JsonCategory)

\* from("users").select("*")
UsersQuery(d) == {MapSeq(d.users, JsonUser)}

UpperCase == <<"A", "B", "C", "D", "E", "F", "G", "H", "I", "J", "K", "L", "M",
               "N", "O", "P", "Q", "R", "S", "T", "U", "V", "W", "X", "Y", "Z">>
LowerCase == <<"a", "b", "c", "d", "e", "f", "g", "h", "i", "j", "k", "l", "m",
               "n", "o", "p", "q", "r", "s", "t", "u", "v", "w", "x", "y", "z">>

Lower(c) ==
  IF \E i \in 1..26 : UpperCase[i] = c
  THEN LowerCase[CHOOSE i \in 1..26 : UpperCase[i] = c]
  ELSE c

LowerText(s) == [i \in 1..Len(s) |-> Lower(s[i])]

RECURSIVE LikeMatch(_, _)
\* SQL LIKE: % stands for any text, _ for any one character (the escape
\* character \ is not in SearchAlphabet and has no case here)
LikeMatch(pat, s) ==
  IF pat = <<>> THEN s = <<>>
  ELSE IF Head(pat) = "%"
       THEN LikeMatch(Tail(pat), s) \/ (s # <<>> /\ LikeMatch(pat, Tail(s)))
  ELSE IF Head(pat) = "_"
       THEN s # <<>> /\ LikeMatch(Tail(pat), Tail(s))
  ELSE s # <<>> /\ Head(s) = Head(pat) /\ LikeMatch(Tail(pat), Tail(s))

\* column ILIKE pattern
Ilike(text, pat) == LikeMatch(LowerText(pat), LowerText(text))

\* from("products").select("*"), with .ilike("name", `%${search}%`) when the
\* search text is truthy (neither undefined nor "")
ProductsQuery(d, search) ==
  LET Keep(r) == Ilike(r.name, <<"%">> \o search.val \o <<"%">>)
  IN  IF search.type = "string" /\ search.val # <<>>
      THEN {MapSeq(SelectSeq(d.products, Keep), JsonProduct)}
      ELSE {MapSeq(d.products, JsonProduct)}

\* a products table without the CHECK on price
ViolatedChecksNoPrice(row) ==
  {c \in {"products_rating_check", "products_stock_quantity_check"} :
     \/ c = "products_rating_check" /\ row.rating # <<>>
          /\ (row.rating[1] < RatingMin \/ row.rating[1] > RatingMax)
     \/ c = "products_stock_quantity_check" /\ row.stock_quantity < StockMin}

\* the CHECK constraints of products a new row breaks
ViolatedChecks(row) ==
  {c \in {"products_price_check", "products_rating_check",
          "products_stock_quantity_check"} :
     \/ c = "products_price_check" /\ row.price < PriceMin
     \/ c = "products_rating_check" /\ row.rating # <<>>
          /\ (row.rating[1] < RatingMin \/ row.rating[1] > RatingMax)
     \/ c = "products_stock_quantity_check" /\ row.stock_quantity < StockMin}

\* the row an insert of the JSON body builds: product_id is generated, a
\* key the body leaves out (rating: undefined) takes the column default NULL
InsertedRow(body, id) ==
  ProductRow(id, body.name.val, body.price.val,
             IF body.rating.type = "number" THEN <<body.rating.val>> ELSE <<>>,
             body.stock_quantity.val)

----------------------------------------------------------------------------
(* The handlers of api.ts *)

Endpoints == {"getDashboardMetrics", "getProducts", "createProduct", "getUsers",
              "getExpensesByCategory"}
QueryEndpoints == Endpoints \ {"createProduct"}

TagTypes == {"DashboardMetrics", "Products", "Users", "Expenses"}

ProvidesTags(e) ==
  CASE e = "getDashboardMetrics" -> {"DashboardMetrics"}
    [] e = "getProducts" -> {"Products"}
    [] e = "getUsers" -> {"Users"}
    [] e = "getExpensesByCategory" -> {"Expenses"}
    [] OTHER -> {}

\* a mutation that forgets the dashboard
OnlyProductsTag == {"Products"}

\* createProduct.invalidatesTags
InvalidatesTags == {"Products", "DashboardMetrics"}

\* the envelope every catch block returns
ServerError == 500
\* an envelope that tells a rejected row from a server fault
ErrorResultByCode(error) ==
  [error |-> [status |-> IF error.code = "constraint" THEN 400 ELSE ServerError,
              data |-> Str(error.message)]]

ErrorResult(error) == [error |-> [status |-> ServerError, data |-> Str(error.message)]]

MapProduct(p) ==
  [productId |-> p.product_id, name |-> p.name, price |-> p.price,
   rating |-> p.rating, stockQuantity |-> p.stock_quantity]

MapSalesSummary(r) ==
  [salesSummaryId |-> r.sales_summary_id, totalValue |-> r.total_value,
   changePercentage |-> r.change_percentage, date |-> r.date]

MapPurchaseSummary(r) ==
  [purchaseSummaryId |-> r.purchase_summary_id, totalPurchased |-> r.total_purchased,
   changePercentage |-> r.change_percentage, date |-> r.date]

MapExpenseSummary(r) ==
  [expenseSummarId |-> r.expense_summary_id, totalExpenses |-> r.total_expenses,
   date |-> r.date]

\* e.amount.toString()
AmountToString(v) == IF v.type = "number" THEN Str(NumberToString(v.val)) ELSE v

MapExpenseByCategory(r) ==
  [expenseByCategorySummaryId |-> r.expense_by_category_id, category |-> r.category,
   amount |-> AmountToString(r.amount), date |-> r.date]

\* a mapping with two fields mixed up
MapUserSwapped(u) == [userId |-> u.user_id, name |-> u.email, email |-> u.name]

MapUser(u) == [userId |-> u.user_id, name |-> u.name, email |-> u.email]

\* the five queries handed to Promise.all, in the order of the array
SubFetches == 1..5
SubFetchTable(i) ==
  <<"products", "sales_summary", "purchase_summary", "expense_summary",
    "expense_by_category">>[i]

SubFetchData(i, d) ==
  CASE i = 1 -> PopularProductsQuery(d)
    [] i = 2 -> SalesSummaryQuery(d)
    [] i = 3 -> PurchaseSummaryQuery(d)
    [] i = 4 -> ExpenseSummaryQuery(d)
    [] i = 5 -> ExpenseByCategoryQuery(d)

\* a query builder is a thenable that resolves, with data or with error; it
\* does not reject
ReadResponses(table, datasets) ==
  {Ok(data) : data \in datasets} \cup {Fail(BackendError(fault, table))}

\* a join that gives up as soon as one response carries an error
SettledOrFailed(s) ==
  \/ \A i \in SubFetches : s[i].settled
  \/ \E i \in SubFetches : s[i].settled /\ s[i].error # NoErr

\* Promise.all over thenables that all resolve: fulfilled when the last one is
AllSettled(s) == \A i \in SubFetches : s[i].settled

DashboardData(r) ==
  [data |->
     [popularProducts |-> MapSeq(r[1].data, MapProduct),
      salesSummary |-> MapSeq(r[2].data, MapSalesSummary),
      purchaseSummary |-> MapSeq(r[3].data, MapPurchaseSummary),
      expenseSummary |-> MapSeq(r[4].data, MapExpenseSummary),
      expenseByCategorySummary |-> MapSeq(r[5].data, MapExpenseByCategory)]]

\* a handler that only looks at the first response and fills the row sets of
\* failed sub-fetches with nothing (data ?? [])
DashboardResultPartial(r) ==
  IF r[1].error # NoErr THEN ErrorResult(r[1].error) ELSE DashboardData(r)

\* a handler that reports the failure that arrived first
DashboardResultFirstArrived(r) ==
  IF \E i \in SubFetches : r[i].first
  THEN ErrorResult(r[CHOOSE i \in SubFetches : r[i].first].error)
  ELSE DashboardData(r)

\* getDashboardMetrics.queryFn after the await: r[i] is the i-th response
DashboardResult(r) ==
  IF r[1].error # NoErr THEN ErrorResult(r[1].error)
  ELSE IF r[2].error # NoErr THEN ErrorResult(r[2].error)
  ELSE IF r[3].error # NoErr THEN ErrorResult(r[3].error)
  ELSE IF r[4].error # NoErr THEN ErrorResult(r[4].error)
  ELSE IF r[5].error # NoErr THEN ErrorResult(r[5].error)
  ELSE DashboardData(r)

\* getProducts.queryFn after the await
ProductsResult(resp) ==
  IF resp.error # NoErr THEN ErrorResult(resp.error)
  ELSE [data |-> MapSeq(resp.data, MapProduct)]

\* an insert body with two columns mixed up
InsertBodySwapped(newProduct) ==
  [name |-> newProduct.name, price |-> newProduct.stockQuantity,
   rating |-> newProduct.rating, stock_quantity |-> newProduct.price]

\* the insert body createProduct builds from its argument
InsertBody(newProduct) ==
  [name |-> newProduct.name, price |-> newProduct.price, rating |-> newProduct.rating,
   stock_quantity |-> newProduct.stockQuantity]

\* createProduct.queryFn after the await; .single() delivers one row
CreateProductResult(resp) ==
  IF resp.error # NoErr THEN ErrorResult(resp.error)
  ELSE [data |-> MapProduct(resp.data)]

UsersResult(resp) ==
  IF resp.error # NoErr THEN ErrorResult(resp.error)
  ELSE [data |-> MapSeq(resp.data, MapUser)]

ExpensesByCategoryResult(resp) ==
  IF resp.error # NoErr THEN ErrorResult(resp.error)
  ELSE [data |-> MapSeq(resp.data, MapExpenseByCategory)]

----------------------------------------------------------------------------
(* Inputs *)

SearchAlphabet == {"a", "A", "b", "_", "%"}

RECURSIVE TextsUpTo(_)
TextsUpTo(n) ==
  IF n = 0 THEN {<<>>}
  ELSE LET shorter == TextsUpTo(n - 1)
       IN  shorter \cup {t \o <<c>> : t \in shorter, c \in SearchAlphabet}

\* string | void
SearchArgs == {Undefined} \cup {Str(t) : t \in TextsUpTo(MaxSearchLen)}

NewProduct(name, price, rating, stock) ==
  [name |-> Str(name), price |-> Num(price), rating |-> rating,
   stockQuantity |-> Num(stock)]

\* arguments of createProduct: the storage accepts the first two and
\* rejects the others
NewProducts ==
  {NewProduct(<<"P", "e", "n">>, 150, Undefined, 10),
   NewProduct(<<"a", "_">>, 0, Num(50), 100),
   NewProduct(<<"B", "a", "d">>, -1, Undefined, 0),
   NewProduct(<<"P", "e", "n">>, 150, Num(51), 10),
   NewProduct(<<"P", "e", "n">>, 150, Num(-1), 10),
   NewProduct(<<"P", "e", "n">>, 150, Num(45), -1)}

----------------------------------------------------------------------------
(* The state machine *)

Idle == [active |-> FALSE, arg |-> Undefined, seen |-> {}]
Running(arg, seen) == [active |-> TRUE, arg |-> arg, seen |-> seen]

\* a sub-fetch of the dashboard: its response once it arrived, whether it was
\* the first failure to arrive, and the products the database held when it
\* was answered
Unsettled == [settled |-> FALSE, data |-> <<>>, error |-> NoErr, first |-> FALSE,
              read |-> <<>>]
Settled(resp, first, read) ==
  [settled |-> TRUE, data |-> resp.data, error |-> resp.error, first |-> first,
   read |-> read]
NoSubs == [i \in SubFetches |-> Unsettled]

\* what the step just taken returned to its caller: the handler's result,
\* with the backend response it was computed from
NoResult == [endpoint |-> "", arg |-> Undefined, result |-> [none |-> TRUE],
             resp |-> Ok(<<>>), subs |-> NoSubs, seen |-> {}]
Returned(e, p, result, resp, s) ==
  [endpoint |-> e, arg |-> p.arg, result |-> result, resp |-> resp, subs |-> s,
   seen |-> p.seen]

NumPending == Cardinality({e \in Endpoints : pending[e].active})

CanCall(e) == ~pending[e].active /\ calls < MaxCalls /\ NumPending < MaxPending

\* the cache entry of a query after its queryFn returned
Cached(result) == IF "data" \in DOMAIN result THEN "fulfilled" ELSE "rejected"

\* the cache after a mutation that invalidates `tags`
Invalidate(c, tags) ==
  [e \in QueryEndpoints |->
     IF ProvidesTags(e) \cap tags # {} /\ c[e] # "uninitialized"
     THEN "invalidated" ELSE c[e]]

Init ==
  /\ db \in InitialDatabases
  /\ fault \in ReadFailures
  /\ nextId = 1
  /\ calls = 0
  /\ pending = [e \in Endpoints |-> Idle]
  /\ subs = NoSubs
  /\ last = NoResult
  /\ cache = [e \in QueryEndpoints |-> "uninitialized"]
  /\ created = {}

Call(e, arg, seen) ==
  /\ CanCall(e)
  /\ pending' = [pending EXCEPT ![e] = Running(arg, seen)]
  /\ calls' = calls + 1
  /\ last' = NoResult
  /\ UNCHANGED <<db, fault, nextId, subs, cache, created>>

Return(e, result, resp) ==
  /\ pending' = [pending EXCEPT ![e] = Idle]
  /\ last' = Returned(e, pending[e], result, resp, subs)

CallGetDashboardMetrics == Call("getDashboardMetrics", Undefined, {})

\* one of the five responses arrives
SettleSubFetch ==
  \E i \in SubFetches :
    /\ pending["getDashboardMetrics"].active
    /\ ~subs[i].settled
    /\ \E resp \in ReadResponses(SubFetchTable(i), SubFetchData(i, db)) :
         subs' = [subs EXCEPT ![i] =
                    Settled(resp,
                            resp.error # NoErr
                              /\ \A j \in SubFetches : subs[j].error = NoErr,
                            IF i = 1 THEN db.products ELSE <<>>)]
    /\ last' = NoResult
    /\ UNCHANGED <<db, fault, nextId, calls, pending, cache, created>>

ReturnGetDashboardMetrics ==
  /\ pending["getDashboardMetrics"].active
  /\ AllSettled(subs)
  /\ Return("getDashboardMetrics", DashboardResult(subs), Ok(<<>>))
  /\ subs' = NoSubs
  /\ cache' = [cache EXCEPT !["getDashboardMetrics"] = Cached(DashboardResult(subs))]
  /\ UNCHANGED <<db, fault, nextId, calls, created>>

CallGetProducts == \E search \in SearchArgs : Call("getProducts", search, created)

ReturnGetProducts ==
  /\ pending["getProducts"].active
  /\ \E resp \in ReadResponses("products",
                               ProductsQuery(db, pending["getProducts"].arg)) :
       /\ Return("getProducts", ProductsResult(resp), resp)
       /\ cache' = [cache EXCEPT !["getProducts"] = Cached(ProductsResult(resp))]
  /\ UNCHANGED <<db, fault, nextId, calls, subs, created>>

CallCreateProduct == \E newProduct \in NewProducts : Call("createProduct", newProduct, {})

\* the insert is rejected by a CHECK constraint, or never reaches the database
CreateProductRejected ==
  LET row == InsertedRow(InsertBody(pending["createProduct"].arg), GenUuid("n", nextId))
      errors == {[code |-> "constraint", message |-> <<"violates", ":", c>>]
                   : c \in ViolatedChecks(row)}
                \cup {BackendError("connectivity", "products")}
  IN  /\ pending["createProduct"].active
      /\ \E err \in errors :
           Return("createProduct", CreateProductResult(Fail(err)), Fail(err))
      /\ cache' = Invalidate(cache, InvalidatesTags)
      /\ UNCHANGED <<db, fault, nextId, calls, subs, created>>

\* the row is stored and comes back through .select().single()
CreateProductStored ==
  LET row == InsertedRow(InsertBody(pending["createProduct"].arg), GenUuid("n", nextId))
      result == CreateProductResult(Ok(JsonProduct(row)))
  IN  /\ pending["createProduct"].active
      /\ ViolatedChecks(row) = {}
      /\ db' = [db EXCEPT !.products = Append(@, row)]
      /\ nextId' = nextId + 1
      /\ Return("createProduct", result, Ok(JsonProduct(row)))
      /\ created' = created \cup {result.data}
      /\ cache' = Invalidate(cache, InvalidatesTags)
      /\ UNCHANGED <<fault, calls, subs>>

CallGetUsers == Call("getUsers", Undefined, {})

ReturnGetUsers ==
  /\ pending["getUsers"].active
  /\ \E resp \in ReadResponses("users", UsersQuery(db)) :
       /\ Return("getUsers", UsersResult(resp), resp)
       /\ cache' = [cache EXCEPT !["getUsers"] = Cached(UsersResult(resp))]
  /\ UNCHANGED <<db, fault, nextId, calls, subs, created>>

CallGetExpensesByCategory == Call("getExpensesByCategory", Undefined, {})

ReturnGetExpensesByCategory ==
  /\ pending["getExpensesByCategory"].active
  /\ \E resp \in ReadResponses("expense_by_category", ExpenseByCategoryQuery(db)) :
       /\ Return("getExpensesByCategory", ExpensesByCategoryResult(resp), resp)
       /\ cache' = [cache EXCEPT !["getExpensesByCategory"] =
                      Cached(ExpensesByCategoryResult(resp))]
  /\ UNCHANGED <<db, fault, nextId, calls, subs, created>>

Next ==
  \/ CallGetDashboardMetrics
  \/ SettleSubFetch
  \/ ReturnGetDashboardMetrics
  \/ CallGetProducts
  \/ ReturnGetProducts
  \/ CallCreateProduct
  \/ CreateProductRejected
  \/ CreateProductStored
  \/ CallGetUsers
  \/ ReturnGetUsers
  \/ CallGetExpensesByCategory
  \/ ReturnGetExpensesByCategory

Spec == Init /\ [][Next]_vars

----------------------------------------------------------------------------
(* Properties of getDashboardMetrics *)

IsError(result) == DOMAIN result = {"error"}
IsData(result) == DOMAIN result = {"data"}

DashboardReturned == last.endpoint = "getDashboardMetrics"
FailedSubs(s) == {i \in SubFetches : s[i].settled /\ s[i].error # NoErr}
DashboardFields == {"popularProducts", "salesSummary", "purchaseSummary",
                    "expenseSummary", "expenseByCategorySummary"}
RowSet(data, i) ==
  CASE i = 1 -> data.popularProducts
    [] i = 2 -> data.salesSummary
    [] i = 3 -> data.purchaseSummary
    [] i = 4 -> data.expenseSummary
    [] i = 5 -> data.expenseByCategorySummary

\* C1: getDashboardMetrics is all-or-nothing.  When at least one of the five
\* sub-fetches failed the handler returns an error and no data object; it
\* returns data only when all five succeeded, and the data then holds all
\* five row sets, each with one entry per row delivered.
C1_AllOrNothing ==
  DashboardReturned =>
    IF FailedSubs(last.subs) # {}
    THEN IsError(last.result)
    ELSE /\ IsData(last.result)
         /\ DOMAIN last.result.data = DashboardFields
         /\ \A i \in SubFetches :
              Len(RowSet(last.result.data, i)) = Len(last.subs[i].data)

\* a call in which some sub-fetches failed and others had delivered rows
C1_Witness ==
  /\ DashboardReturned
  /\ FailedSubs(last.subs) # {}
  /\ \E i \in SubFetches : last.subs[i].error = NoErr /\ Len(last.subs[i].data) > 0
  /\ IsError(last.result)

\* C9 as stated: a failing sub-fetch ends the call at once, with its error,
\* while other sub-fetches are still in flight.
C9_ShortCircuits ==
  /\ pending["getDashboardMetrics"].active => FailedSubs(subs) = {}
  /\ DashboardReturned /\ FailedSubs(last.subs) # {} =>
       \E i \in SubFetches :
         /\ last.subs[i].first
         /\ last.result = [error |-> [status |-> 500,
                                      data |-> Str(last.subs[i].error.message)]]

\* C9 as amended: the five sub-fetches are joined.  The handler returns,
\* with data or with an error, only after all five responses have arrived;
\* when any of them failed the call fails and the rows the others delivered
\* are discarded.
C9_JoinsAllFive ==
  DashboardReturned =>
    /\ \A i \in SubFetches : last.subs[i].settled
    /\ FailedSubs(last.subs) # {} => "data" \notin DOMAIN last.result

\* the first response to fail was not the only one awaited: others succeeded
\* and the call still failed
C9_Witness ==
  /\ DashboardReturned
  /\ \E i, j \in SubFetches :
       /\ last.subs[i].first
       /\ j # i /\ last.subs[j].settled /\ last.subs[j].error = NoErr
       /\ Len(last.subs[j].data) > 0
  /\ "error" \in DOMAIN last.result

Least(S) == CHOOSE i \in S : \A j \in S : i <= j

\* C10: when several sub-fetches fail the call fails with exactly one error,
\* that of the failed sub-fetch that comes first in the order products, sales
\* summary, purchase summary, expense summary, expense by category, in
\* whatever order the responses arrived.
C10_FirstInFixedOrder ==
  DashboardReturned /\ FailedSubs(last.subs) # {} =>
    /\ IsError(last.result)
    /\ last.result.error.data = Str(last.subs[Least(FailedSubs(last.subs))].error.message)
    /\ last.subs[Least(FailedSubs(last.subs))].error.message[3]
         = SubFetchTable(Least(FailedSubs(last.subs)))

\* two failures, and the one that arrived first is not the one reported
C10_Witness ==
  /\ DashboardReturned
  /\ Cardinality(FailedSubs(last.subs)) >= 2
  /\ ~last.subs[Least(FailedSubs(last.subs))].first
  /\ IsError(last.result)

Min(a, b) == IF a < b THEN a ELSE b
StocksOf(products) == [i \in 1..Len(products) |-> products[i].stockQuantity.val]
IdsOf(products) == {products[i].productId.val : i \in 1..Len(products)}

\* C6: a successful getDashboardMetrics returns min(5, number of products)
\* distinct products of the table, ordered by stock quantity descending, and
\* no product left out has more stock than one that is returned; over the
\* seed products the returned stocks are 500, 200, 150, 120, 100.
C6_TopFiveByStock ==
  DashboardReturned /\ IsData(last.result) =>
    LET popular == last.result.data.popularProducts
        table == last.subs[1].read
    IN  /\ Len(popular) = Min(5, Len(table))
        /\ Cardinality(IdsOf(popular)) = Len(popular)
        /\ \A i \in 1..Len(popular) :
             \E k \in 1..Len(table) :
               /\ table[k].product_id = popular[i].productId.val
               /\ table[k].stock_quantity = popular[i].stockQuantity.val
        /\ \A i, j \in 1..Len(popular) :
             i < j => popular[i].stockQuantity.val >= popular[j].stockQuantity.val
        /\ \A k \in 1..Len(table) :
             table[k].product_id \notin IdsOf(popular) =>
               \A i \in 1..Len(popular) :
                 table[k].stock_quantity <= popular[i].stockQuantity.val
        /\ table = SeedProducts => StocksOf(popular) = <<500, 200, 150, 120, 100>>

\* the seed products plus a created one whose stock equals the fifth-largest
C6_Witness ==
  /\ DashboardReturned /\ IsData(last.result)
  /\ Len(last.subs[1].read) = Len(SeedProducts) + 1
  /\ \E k \in 1..Len(last.subs[1].read) :
       /\ last.subs[1].read[k].stock_quantity = 100
       /\ last.subs[1].read[k].product_id \notin IdsOf(last.result.data.popularProducts)

----------------------------------------------------------------------------
(* Properties of getProducts and createProduct *)

ProductsReturned == last.endpoint = "getProducts"
CreateReturned == last.endpoint = "createProduct"

\* sub occurs in text
Contains(text, sub) ==
  \E i \in 1..(Len(text) - Len(sub) + 1) : SubSeq(text, i, i + Len(sub) - 1) = sub

SearchText(arg) == IF arg.type = "string" THEN arg.val ELSE <<>>
NoFilter(arg) == SearchText(arg) = <<>>

\* C2: getProducts(s) returns exactly the products whose name contains s as
\* a case-insensitive substring, and every product when s is absent or empty.
C2_ExactSubstringFilter ==
  ProductsReturned /\ IsData(last.result) =>
    LET sub == LowerText(SearchText(last.arg))
        expected == {db.products[k].product_id : k \in
                       {k \in 1..Len(db.products) :
                          Contains(LowerText(db.products[k].name), sub)}}
    IN  /\ IdsOf(last.result.data) = expected
        /\ Len(last.result.data) = Cardinality(expected)

\* C3: a createProduct that succeeds returns a record with a generated id
\* (the id of exactly one stored row) and the name, price, rating and
\* stockQuantity it was given; every unfiltered getProducts that starts
\* after that success and succeeds includes that record.
C3_CreatedThenListed ==
  /\ CreateReturned /\ IsData(last.result) =>
       /\ last.result.data.productId.type = "string"
       /\ Cardinality({k \in 1..Len(db.products) :
                         db.products[k].product_id = last.result.data.productId.val}) = 1
       /\ last.result.data.name = last.arg.name
       /\ last.result.data.price = last.arg.price
       /\ last.result.data.stockQuantity = last.arg.stockQuantity
       /\ last.arg.rating.type = "number" => last.result.data.rating = last.arg.rating
  /\ ProductsReturned /\ IsData(last.result) /\ NoFilter(last.arg) =>
       \A c \in last.seen : \E i \in 1..Len(last.result.data) : last.result.data[i] = c

\* an unfiltered getProducts that started after a successful createProduct
C3_Witness ==
  /\ ProductsReturned /\ IsData(last.result) /\ NoFilter(last.arg)
  /\ \E c \in last.seen :
       /\ c.rating.type = "number"
       /\ \E i \in 1..Len(last.result.data) : last.result.data[i] = c

CreateProductReturns ==
  pending["createProduct"].active /\ ~pending'["createProduct"].active

BreaksConstraint(newProduct) ==
  \/ newProduct.price.val < 0
  \/ newProduct.stockQuantity.val < 0
  \/ newProduct.rating.type = "number"
       /\ (newProduct.rating.val < 0 \/ newProduct.rating.val > 50)

\* C4: a createProduct whose input has price < 0, stockQuantity < 0 or a
\* rating outside [0,5] returns an error and leaves the products table, and
\* so what getProducts returns, as it was.
C4_RejectedInsertPersistsNothing ==
  [][CreateProductReturns /\ BreaksConstraint(pending["createProduct"].arg) =>
       /\ IsError(last'.result)
       /\ db' = db
       /\ ProductsQuery(db', Undefined) = ProductsQuery(db, Undefined)]_vars

\* the storage rejected a row with a negative price
C4_Witness ==
  /\ CreateReturned
  /\ last.arg.price.val < 0
  /\ last.resp.error.code = "constraint"
  /\ IsError(last.result)

----------------------------------------------------------------------------
(* Properties of all five handlers *)

\* the failures the backend reported to the call that just returned
Failures ==
  IF DashboardReturned THEN {last.subs[i].error : i \in FailedSubs(last.subs)}
  ELSE IF last.resp.error # NoErr THEN {last.resp.error}
  ELSE {}

\* C7 as stated: every failure is returned as {status, message}, status 500.
C7_StatusMessageEnvelope ==
  last.endpoint # "" /\ Failures # {} =>
    /\ IsError(last.result)
    /\ DOMAIN last.result.error = {"status", "message"}
    /\ last.result.error.status = 500

\* C7 as amended: every handler, on every backend failure, returns the same
\* envelope {status, data}: status is always 500 and data is the backend's
\* message text; without a failure it returns data.
C7_StatusDataEnvelope ==
  last.endpoint # "" =>
    IF Failures = {} THEN IsData(last.result)
    ELSE /\ IsError(last.result)
         /\ DOMAIN last.result.error = {"status", "data"}
         /\ last.result.error.status = 500
         /\ \E f \in Failures : last.result.error.data = Str(f.message)

\* a constraint violation and a missing table come back in the same shape
C7_Witness ==
  /\ last.endpoint \in {"getUsers", "createProduct"}
  /\ last.resp.error.code \in {"notfound", "constraint"}
  /\ last.result = [error |-> [status |-> 500, data |-> Str(last.resp.error.message)]]

ProductFields ==
  {<<"productId", "product_id">>, <<"name", "name">>, <<"price", "price">>,
   <<"rating", "rating">>, <<"stockQuantity", "stock_quantity">>}
UserFields == {<<"userId", "user_id">>, <<"name", "name">>, <<"email", "email">>}
SalesFields ==
  {<<"salesSummaryId", "sales_summary_id">>, <<"totalValue", "total_value">>,
   <<"changePercentage", "change_percentage">>, <<"date", "date">>}
PurchaseFields ==
  {<<"purchaseSummaryId", "purchase_summary_id">>,
   <<"totalPurchased", "total_purchased">>,
   <<"changePercentage", "change_percentage">>, <<"date", "date">>}
ExpenseFields ==
  {<<"expenseSummarId", "expense_summary_id">>, <<"totalExpenses", "total_expenses">>,
   <<"date", "date">>}
CategoryFields ==
  {<<"expenseByCategorySummaryId", "expense_by_category_id">>,
   <<"category", "category">>, <<"amount", "amount">>, <<"date", "date">>}

\* every view-model field of `fields` holds the value of its column
SameFields(views, rows, fields) ==
  /\ Len(views) = Len(rows)
  /\ \A i \in 1..Len(views) : \A f \in fields : views[i][f[1]] = rows[i][f[2]]

\* the view models have exactly the fields of `fields`
OnlyFields(views, fields) ==
  \A i \in 1..Len(views) : DOMAIN views[i] = {f[1] : f \in fields}

DigitValue(c) == CHOOSE d \in 0..9 : Digit(d) = c

RECURSIVE ParseDecimal(_)
ParseDecimal(text) ==
  IF text = <<>> THEN 0
  ELSE IF Head(text) = "-" THEN 0 - ParseDecimal(Tail(text))
  ELSE ParseDecimal(SubSeq(text, 1, Len(text) - 1)) * 10
         + DigitValue(text[Len(text)])

\* amount is the decimal text of the numeric column
AmountAsText(views, rows) ==
  \A i \in 1..Len(views) :
    /\ views[i].amount.type = "string"
    /\ rows[i].amount.type = "number"
    /\ views[i].amount.val # <<>>
    /\ \A k \in 1..Len(views[i].amount.val) :
         views[i].amount.val[k] \in {Digit(d) : d \in 0..9} \cup {"-"}
    /\ ParseDecimal(views[i].amount.val) = rows[i].amount.val

\* the rows of every read, field by field; `amountFields` are the fields
\* compared for expense_by_category
RoundTrip(amountFields) ==
  /\ ProductsReturned /\ IsData(last.result) =>
       /\ OnlyFields(last.result.data, ProductFields)
       /\ SameFields(last.result.data, last.resp.data, ProductFields)
  /\ last.endpoint = "getUsers" /\ IsData(last.result) =>
       /\ OnlyFields(last.result.data, UserFields)
       /\ SameFields(last.result.data, last.resp.data, UserFields)
  /\ last.endpoint = "getExpensesByCategory" /\ IsData(last.result) =>
       /\ OnlyFields(last.result.data, CategoryFields)
       /\ SameFields(last.result.data, last.resp.data, amountFields)
  /\ DashboardReturned /\ IsData(last.result) =>
       /\ OnlyFields(last.result.data.popularProducts, ProductFields)
       /\ SameFields(last.result.data.popularProducts, last.subs[1].data, ProductFields)
       /\ OnlyFields(last.result.data.salesSummary, SalesFields)
       /\ SameFields(last.result.data.salesSummary, last.subs[2].data, SalesFields)
       /\ OnlyFields(last.result.data.purchaseSummary, PurchaseFields)
       /\ SameFields(last.result.data.purchaseSummary, last.subs[3].data, PurchaseFields)
       /\ OnlyFields(last.result.data.expenseSummary, ExpenseFields)
       /\ SameFields(last.result.data.expenseSummary, last.subs[4].data, ExpenseFields)
       /\ OnlyFields(last.result.data.expenseByCategorySummary, CategoryFields)
       /\ SameFields(last.result.data.expenseByCategorySummary, last.subs[5].data,
                     amountFields)

\* C8 as stated: every field of every returned view model, amount included,
\* holds the identical value of its column.
C8_AllFieldsIdentical == RoundTrip(CategoryFields)

\* C8 as amended: every field of every returned view model holds the
\* identical value of its column, except amount, which holds the decimal
\* text of the numeric column; no field is dropped or swapped.
C8_IdenticalButAmountText ==
  /\ RoundTrip(CategoryFields \ {<<"amount", "amount">>})
  /\ last.endpoint = "getExpensesByCategory" /\ IsData(last.result) =>
       AmountAsText(last.result.data, last.resp.data)
  /\ DashboardReturned /\ IsData(last.result) =>
       AmountAsText(last.result.data.expenseByCategorySummary, last.subs[5].data)

\* rows with NULLs and rows with several-digit amounts went through the maps
C8_Witness ==
  /\ DashboardReturned /\ IsData(last.result)
  /\ \E i \in 1..Len(last.result.data.expenseByCategorySummary) :
       Len(last.result.data.expenseByCategorySummary[i].amount.val) >= 2
  /\ \E i \in 1..Len(last.result.data.salesSummary) :
       last.result.data.salesSummary[i].changePercentage = Null

====
